---- MODULE Spec2Model ----
(***************************************************************************)
(* Location extraction for Maltese police press releases                   *)
(* (notebooks/extract_location.py): the text normalizers, the town variant *)
(* generator, the town lookup index, the town matcher and the road-town    *)
(* joint extractor.                                                        *)
(*                                                                         *)
(* A string is a tuple of character names.  An ASCII character is named by *)
(* itself; the others are: Hbar hbar (H with stroke), Gdot gdot, Zdot zdot,*)
(* Cdot cdot (dot above), Agrave .. ugrave (grave vowels), lsquo rsquo     *)
(* (U+2018, U+2019), grave (U+0060), acute (U+00B4), prime (U+2032),       *)
(* bslash (backslash), nl (line feed), tab.                                *)
(***************************************************************************)
EXTENDS Integers, Sequences, FiniteSets, TLC

VARIABLES
    locations,  \* the gazetteer: the 'Town' column of locations_df, row by row
    content,    \* the content argument of the extraction functions
    text,       \* the text argument of to_ascii / normalize_apostrophes
    call,       \* the function that was called ("none" before the call)
    ret,        \* the value the call returned
    searches    \* the number of re.search calls the call made

vars == <<locations, content, text, call, ret, searches>>

----------------------------------------------------------------------------
(* Bounds of the checked input sets. *)

\* longest text given to the normalizers
MaxTextLen == 2
\* most rows of a gazetteer
MaxTowns == 2
\* most fragments a content is put together from
MaxFrags == 3

----------------------------------------------------------------------------
(* Characters, as Python's re module classifies them for str patterns. *)

UpperCase ==
    <<"A","B","C","D","E","F","G","H","I","J","K","L","M","N","O","P","Q","R",
      "S","T","U","V","W","X","Y","Z","Hbar","Gdot","Zdot","Cdot",
      "Agrave","Egrave","Igrave","Ograve","Ugrave">>

LowerCase ==
    <<"a","b","c","d","e","f","g","h","i","j","k","l","m","n","o","p","q","r",
      "s","t","u","v","w","x","y","z","hbar","gdot","zdot","cdot",
      "agrave","egrave","igrave","ograve","ugrave">>

Digits == {"0","1","2","3","4","5","6","7","8","9"}

\* \w
WordChars ==
    {UpperCase[i] : i \in 1..Len(UpperCase)} \cup {LowerCase[i] : i \in 1..Len(LowerCase)}
        \cup Digits \cup {"_"}

IsWord(c) == c \in WordChars

\* \s
IsSpace(c) == c \in {" ", "nl", "tab"}

\* the case fold of re.IGNORECASE
LowerOf ==
    [c \in {UpperCase[i] : i \in 1..Len(UpperCase)} |->
        LowerCase[CHOOSE i \in 1..Len(UpperCase) : UpperCase[i] = c]]

Lower(c) == IF c \in DOMAIN LowerOf THEN LowerOf[c] ELSE c

\* None, and the float NaN pandas uses for a missing cell: neither is a string
None == <<"None">>
NaN == <<"NaN">>

----------------------------------------------------------------------------
(* Text Normalizer *)

\* str.replace(old, new) for one-character old and new
Replace(s, old, new) ==
    [i \in 1..Len(s) |-> IF s[i] = old THEN new ELSE s[i]]

\* a slip: E grave replaced by A grave, a key that was handled before it
create_ascii_mapping_swapped ==
    << <<"Hbar","H">>, <<"hbar","h">>, <<"Gdot","G">>, <<"gdot","g">>,
       <<"Zdot","Z">>, <<"zdot","z">>, <<"Cdot","C">>, <<"cdot","c">>,
       <<"Agrave","A">>, <<"agrave","a">>, <<"Egrave","Agrave">>, <<"egrave","e">>,
       <<"Igrave","I">>, <<"igrave","i">>, <<"Ograve","O">>, <<"ograve","o">>,
       <<"Ugrave","U">>, <<"ugrave","u">>, <<"lsquo","'">>, <<"rsquo","'">> >>

\* the dict of create_ascii_mapping, in insertion order
create_ascii_mapping ==
    << <<"Hbar","H">>, <<"hbar","h">>, <<"Gdot","G">>, <<"gdot","g">>,
       <<"Zdot","Z">>, <<"zdot","z">>, <<"Cdot","C">>, <<"cdot","c">>,
       <<"Agrave","A">>, <<"agrave","a">>, <<"Egrave","E">>, <<"egrave","e">>,
       <<"Igrave","I">>, <<"igrave","i">>, <<"Ograve","O">>, <<"ograve","o">>,
       <<"Ugrave","U">>, <<"ugrave","u">>, <<"lsquo","'">>, <<"rsquo","'">> >>

\* the loop of to_ascii: one replace per item of the mapping, in order
RECURSIVE ReplaceAll(_, _, _)
ReplaceAll(s, mapping, k) ==
    IF k > Len(mapping) THEN s
    ELSE ReplaceAll(Replace(s, mapping[k][1], mapping[k][2]), mapping, k + 1)

to_ascii(s) == ReplaceAll(s, create_ascii_mapping, 1)

apostrophes == <<"lsquo", "rsquo", "grave", "acute", "prime">>

RECURSIVE ReplaceApostrophes(_, _)
ReplaceApostrophes(s, k) ==
    IF k > Len(apostrophes) THEN s
    ELSE ReplaceApostrophes(Replace(s, apostrophes[k], "'"), k + 1)

normalize_apostrophes(s) == ReplaceApostrophes(s, 1)

----------------------------------------------------------------------------
(* Variant Generator and Alias Catalog *)

\* str.startswith
StartsWith(s, p) ==
    /\ Len(p) <= Len(s)
    /\ \A i \in 1..Len(p) : s[i] = p[i]

\* x in list
Contains(list, x) == \E i \in 1..Len(list) : list[i] = x

Min(S) == CHOOSE x \in S : \A y \in S : x <= y

Max(S) == CHOOSE x \in S : \A y \in S : x >= y

\* Il-  L-  Hal_  Haz-  H'  Is-  Iz-  In-  Ir-  Ix-  Ta'_  Tal-  Tas-
prefixes ==
    << <<"I","l","-">>, <<"L","-">>, <<"Hbar","a","l"," ">>, <<"Hbar","a","zdot","-">>, <<"Hbar","'">>,
       <<"I","s","-">>, <<"I","zdot","-">>, <<"I","n","-">>, <<"I","r","-">>, <<"I","x","-">>,
       <<"T","a","'"," ">>, <<"T","a","l","-">>, <<"T","a","s","-">> >>

create_town_variations(town) ==
    LET hits == {k \in 1..Len(prefixes) : StartsWith(town, prefixes[k])}
    IN  IF hits = {} THEN <<town>>
        ELSE LET base_name == SubSeq(town, Len(prefixes[Min(hits)]) + 1, Len(town))
             IN  IF base_name # <<>> /\ ~Contains(<<town>>, base_name)
                 THEN <<town, base_name>>
                 ELSE <<town>>

\* the dict of get_english_aliases: <<official name, aliases>>, in order
get_english_aliases ==
    << << <<"R","a","hbar","a","l"," ","Gdot","d","i","d">>, << <<"P","a","o","l","a">> >> >>,
       << <<"B","o","r","m","l","a">>, << <<"C","o","s","p","i","c","u","a">> >> >>,
       << <<"I","l","-","B","i","r","g","u">>, << <<"V","i","t","t","o","r","i","o","s","a">> >> >>,
       << <<"L","-","I","s","l","a">>, << <<"S","e","n","g","l","e","a">> >> >>,
       << <<"S","a","n"," ","P","a","w","l"," ","I","l","-","B","a","hbar","a","r">>,
          << <<"S","t"," ","P","a","u","l","'","s"," ","B","a","y">>, <<"S","t","."," ","P","a","u","l","'","s"," ","B","a","y">>, <<"S","t"," ","P","a","u","l","s"," ","B","a","y">>, <<"B","u","gdot","i","b","b","a">>,
             <<"B","u","g","i","b","b","a">>, <<"Q","a","w","r","a">>, <<"S","t"," ","P","a","u","l","rsquo","s"," ","B","a","y">>, <<"S","t","."," ","P","a","u","l","rsquo","s"," ","B","a","y">> >> >>,
       << <<"L","-","I","m","t","a","r","f","a">>, << <<"M","t","a","r","f","a">> >> >>,
       << <<"I","l","-","G","zdot","i","r","a">>, << <<"G","z","i","r","a">> >> >>,
       << <<"L","-","I","m","gdot","a","r","r">>, << <<"M","g","a","r","r">>, <<"M","gdot","a","r","r">> >> >>,
       << <<"Hbar","a","l"," ","G","h","a","x","a","q">>, << <<"G","hbar","a","x","a","q">>, <<"G","h","a","x","a","q">> >> >>,
       << <<"I","r","-","R","a","b","a","t">>, << <<"V","i","c","t","o","r","i","a">> >> >>,
       << <<"S","a","n"," ","Gdot","i","l","j","a","n">>,
          << <<"S","t"," ","J","u","l","i","a","n","'","s">>, <<"S","t","."," ","J","u","l","i","a","n","'","s">>, <<"S","t"," ","J","u","l","i","a","n","s">>, <<"S","t","."," ","J","u","l","i","a","n","s">>,
             <<"S","t"," ","J","u","l","i","a","n","rsquo","s">>, <<"S","t","."," ","J","u","l","i","a","n","rsquo","s">> >> >>,
       << <<"T","a","l","-","P","i","e","t","a","'">>,
          << <<"T","a","l","-","P","i","e","t","agrave">>, <<"P","i","e","t","agrave">>, <<"P","i","e","t","a">>, <<"G","w","a","r","d","a","m","a","n","gdot","a">>, <<"G","w","a","r","d","a","m","a","n","g","a">> >> >>,
       << <<"M","a","r","s","a","s","k","a","l","a">>, << <<"M","a","r","s","a","s","c","a","l","a">> >> >>,
       << <<"Hbar","'","A","t","t","a","r","d">>, << <<"A","t","t","a","r","d">> >> >>,
       << <<"I","l","-","M","e","l","l","i","e","hbar","a">>, << <<"M","e","l","l","i","e","h","a">>, <<"M","e","l","l","i","e","hbar","a">> >> >>,
       << <<"L","-","I","m","s","i","d","a">>, << <<"M","s","i","d","a">> >> >>,
       << <<"I","s","-","S","w","i","e","q","i">>, << <<"S","w","i","e","q","i">> >> >>,
       << <<"Hbar","a","l"," ","B","a","l","z","a","n">>, << <<"B","a","l","z","a","n">> >> >>,
       << <<"T","a","'"," ","X","b","i","e","x">>, << <<"X","b","i","e","x">> >> >> >>

\* a slip: the aliases of the entry after the town's own
AliasesOfNextKey(town) ==
    LET keys == {k \in 1..Len(get_english_aliases) : get_english_aliases[k][1] = town}
    IN  IF keys = {} THEN <<>>
        ELSE get_english_aliases[((CHOOSE k \in keys : TRUE) % Len(get_english_aliases)) + 1][2]

\* english_aliases[town] if town in english_aliases, else nothing to extend by
AliasesOf(town) ==
    LET keys == {k \in 1..Len(get_english_aliases) : get_english_aliases[k][1] = town}
    IN  IF keys = {} THEN <<>> ELSE get_english_aliases[CHOOSE k \in keys : TRUE][2]

----------------------------------------------------------------------------
(* Town Lookup Index *)

\* the loop filling ascii_variations, from variations[k] on
RECURSIVE AsciiVariations(_, _, _)
AsciiVariations(variations, k, ascii_variations) ==
    IF k > Len(variations) THEN ascii_variations
    ELSE LET var == variations[k]
             ascii_var == to_ascii(var)
         IN  AsciiVariations(variations, k + 1,
                 IF /\ ascii_var # var
                    /\ ~Contains(variations, ascii_var)
                    /\ ~Contains(ascii_variations, ascii_var)
                 THEN Append(ascii_variations, ascii_var)
                 ELSE ascii_variations)

\* the variations of a town, its aliases and their ASCII folds
all_variations(town) ==
    LET variations == create_town_variations(town) \o AliasesOf(town)
    IN  variations \o AsciiVariations(variations, 1, <<>>)

\* one row of the lookup: <<town, all_variations>>
LookupRow(town) == <<town, all_variations(town)>>

\* max(len(v) for v in x[1])
MaxLen(variations) == Max({Len(variations[k]) : k \in 1..Len(variations)})

\* list.sort(key, reverse=True) on <<key, item>> pairs: stable, so p goes behind
\* every pair whose key is at least its own
RECURSIVE InsertDesc(_, _)
InsertDesc(sorted, p) ==
    IF sorted = <<>> THEN <<p>>
    ELSE IF Head(sorted)[1] >= p[1]
         THEN <<Head(sorted)>> \o InsertDesc(Tail(sorted), p)
         ELSE <<p>> \o sorted

RECURSIVE SortDesc(_, _)
SortDesc(keyed, n) ==
    IF n = 0 THEN <<>> ELSE InsertDesc(SortDesc(keyed, n - 1), keyed[n])

\* list.sort(key): stable, ascending
RECURSIVE InsertAsc(_, _)
InsertAsc(sorted, p) ==
    IF sorted = <<>> THEN <<p>>
    ELSE IF Head(sorted)[1] <= p[1]
         THEN <<Head(sorted)>> \o InsertAsc(Tail(sorted), p)
         ELSE <<p>> \o sorted

RECURSIVE SortAsc(_, _)
SortAsc(keyed, n) ==
    IF n = 0 THEN <<>> ELSE InsertAsc(SortAsc(keyed, n - 1), keyed[n])

\* the items of a sorted list of <<key, item>> pairs
Items(keyed) == [k \in 1..Len(keyed) |-> keyed[k][2]]

\* a slip: the sort left out
build_town_lookup_unsorted(locations_df) ==
    [r \in 1..Len(locations_df) |-> LookupRow(locations_df[r])]

build_town_lookup(locations_df) ==
    LET lookup == [r \in 1..Len(locations_df) |-> LookupRow(locations_df[r])]
        keyed == [r \in 1..Len(lookup) |-> <<MaxLen(lookup[r][2]), lookup[r]>>]
    IN  Items(SortDesc(keyed, Len(keyed)))

----------------------------------------------------------------------------
(* Regular-expression primitives.  A position is 1-based; position 0 is    *)
(* "no match" (re.search returned None), and match.start() is position - 1.*)

IsWordAt(s, i) == i \in 1..Len(s) /\ IsWord(s[i])

\* \b just before position i
WordBoundary(s, i) == IsWordAt(s, i - 1) # IsWordAt(s, i)

\* re.escape(lit) at position i
LiteralAt(s, i, lit) ==
    /\ i >= 1
    /\ i + Len(lit) - 1 <= Len(s)
    /\ \A k \in 1..Len(lit) : s[i + k - 1] = lit[k]

\* the same under re.IGNORECASE
LiteralAtI(s, i, lit) ==
    /\ i >= 1
    /\ i + Len(lit) - 1 <= Len(s)
    /\ \A k \in 1..Len(lit) : Lower(s[i + k - 1]) = Lower(lit[k])

\* a slip: the two \b left out
WordMatchAtNoBoundary(s, i, lit) == LiteralAt(s, i, lit)

\* \b lit \b matches at position i
WordMatchAt(s, i, lit) ==
    /\ LiteralAt(s, i, lit)
    /\ WordBoundary(s, i)
    /\ WordBoundary(s, i + Len(lit))

\* re.search(r'\b' + re.escape(lit) + r'\b', s): the leftmost position
WordSearch(s, lit) ==
    LET hits == {i \in 1..Len(s) : WordMatchAt(s, i, lit)}
    IN  IF hits = {} THEN 0 ELSE Min(hits)

----------------------------------------------------------------------------
(* Town Matcher *)

\* a slip: content is None, in place of the two tests
NoContentNoneOnly(c) == c = None

\* not content or pd.isna(content)
NoContent(c) == c = None \/ c = <<>> \/ c \in {None, NaN}

\* the inner loop: the position of the first variation, in list order, that matches
RECURSIVE FirstVariationHit(_, _, _)
FirstVariationHit(normalized_content, variations, k) ==
    IF k > Len(variations) THEN 0
    ELSE LET pos == WordSearch(normalized_content, normalize_apostrophes(variations[k]))
         IN  IF pos # 0 THEN pos
             ELSE FirstVariationHit(normalized_content, variations, k + 1)

\* the outer loop of extract_town: matches, as <<position, official_name>>
RECURSIVE TownMatches(_, _, _)
TownMatches(normalized_content, lookup, r) ==
    IF r > Len(lookup) THEN <<>>
    ELSE LET pos == FirstVariationHit(normalized_content, lookup[r][2], 1)
         IN  (IF pos # 0 THEN << <<pos, lookup[r][1]>> >> ELSE <<>>)
             \o TownMatches(normalized_content, lookup, r + 1)

extract_town(c, locations_df) ==
    IF NoContent(c) THEN None
    ELSE LET matches == TownMatches(normalize_apostrophes(c),
                                    build_town_lookup(locations_df), 1)
         IN  IF matches = <<>> THEN None
             ELSE SortAsc(matches, Len(matches))[1][2]

\* a slip: the break left out, so a town is appended once per matching variation
RECURSIVE FoundTownsNoBreak(_, _, _, _)
FoundTownsNoBreak(normalized_content, lookup, r, found_towns) ==
    IF r > Len(lookup) THEN found_towns
    ELSE FoundTownsNoBreak(normalized_content, lookup, r + 1,
            IF Contains(found_towns, lookup[r][1]) THEN found_towns
            ELSE LET hits == {k \in 1..Len(lookup[r][2]) :
                                WordSearch(normalized_content,
                                           normalize_apostrophes(lookup[r][2][k])) # 0}
                 IN  found_towns \o [n \in 1..Cardinality(hits) |-> lookup[r][1]])

\* the outer loop of extract_all_towns, from lookup[r] on
RECURSIVE FoundTowns(_, _, _, _)
FoundTowns(normalized_content, lookup, r, found_towns) ==
    IF r > Len(lookup) THEN found_towns
    ELSE FoundTowns(normalized_content, lookup, r + 1,
            IF Contains(found_towns, lookup[r][1]) THEN found_towns
            ELSE IF FirstVariationHit(normalized_content, lookup[r][2], 1) # 0
                 THEN Append(found_towns, lookup[r][1])
                 ELSE found_towns)

extract_all_towns(c, locations_df) ==
    IF NoContent(c) THEN <<>>
    ELSE FoundTowns(normalize_apostrophes(c), build_town_lookup(locations_df), 1, <<>>)

----------------------------------------------------------------------------
(* Road-Town Joint Extractor: the pieces of its regular expressions *)

maltese_prefixes ==
    << <<"T","r","i","q">>, <<"V","j","a","l">>, <<"T","e","l","g","hbar","a">>, <<"T","e","l","g","h","a">>, <<"S","q","a","q">>, <<"M","i","s","r","a","hbar">>,
       <<"M","i","s","r","a","h">>, <<"D","a","w","r","e","t">>, <<"X","a","t","t">>, <<"P","j","a","z","z","a">>, <<"P","i","a","z","z","a">> >>

english_suffixes ==
    << <<"R","o","a","d">>, <<"S","t","r","e","e","t">>, <<"A","v","e","n","u","e">>, <<"D","r","i","v","e">>, <<"L","a","n","e">>, <<"S","q","u","a","r","e">>,
       <<"W","h","a","r","f">>, <<"S","e","a","f","r","o","n","t">>, <<"H","i","l","l">>, <<"P","r","o","m","e","n","a","d","e">>, <<"G","a","r","d","e","n","s">>, <<"P","l","a","c","e">> >>

\* the alternatives of (?:in|at|near|by)
prepositions == << <<"i","n">>, <<"a","t">>, <<"n","e","a","r">>, <<"b","y">> >>

\* the most ([\w']+\s+) groups a road pattern reads: {0,4} and {1,4}
MaxTokens == 4

\* how many \s characters stand at position i and after it
RECURSIVE SpaceRun(_, _)
SpaceRun(s, i) ==
    IF i < 1 \/ i > Len(s) THEN 0
    ELSE IF IsSpace(s[i]) THEN 1 + SpaceRun(s, i + 1) ELSE 0

\* [\w']
IsTokenChar(c) == IsWord(c) \/ c = "'"

\* how many [\w'] characters stand at position i and after it
RECURSIVE TokenRun(_, _)
TokenRun(s, i) ==
    IF i < 1 \/ i > Len(s) THEN 0
    ELSE IF IsTokenChar(s[i]) THEN 1 + TokenRun(s, i + 1) ELSE 0

\* the position behind one [\w']+\s+ read at position i (greedy, and no shorter
\* reading can be continued); 0 when there is none
NextToken(s, i) ==
    LET w == TokenRun(s, i)
        sp == SpaceRun(s, i + w)
    IN  IF w > 0 /\ sp > 0 THEN i + w + sp ELSE 0

\* the positions behind 0, 1, .. up to n groups [\w']+\s+ read from position p
RECURSIVE TokenEnds(_, _, _)
TokenEnds(s, p, n) ==
    IF n = 0 \/ NextToken(s, p) = 0 THEN <<p>>
    ELSE <<p>> \o TokenEnds(s, NextToken(s, p), n - 1)

\* re.escape(lit) at position i, with or without re.IGNORECASE
Lit(s, i, lit, ignorecase) ==
    IF ignorecase THEN LiteralAtI(s, i, lit) ELSE LiteralAt(s, i, lit)

\* ,\s*TOWN\b at position i
TownTail(s, i, town_var, ignorecase) ==
    /\ i \in 1..Len(s)
    /\ s[i] = ","
    /\ \E k \in 0..SpaceRun(s, i + 1) :
          /\ Lit(s, i + 1 + k, town_var, ignorecase)
          /\ WordBoundary(s, i + 1 + k + Len(town_var))

\* str.strip()
strip(s) ==
    LET keep == {i \in 1..Len(s) : ~IsSpace(s[i])}
    IN  IF keep = {} THEN <<>> ELSE SubSeq(s, Min(keep), Max(keep))

\* re.sub(r'\s+(?:in|at|near|by)$', '', road, flags=re.IGNORECASE) on a stripped
\* road: the match runs from the start of the white space before the word
StripPreposition(road) ==
    LET hits == {k \in 1..Len(prepositions) :
                    LET st == Len(road) - Len(prepositions[k]) + 1
                    IN  /\ st >= 2
                        /\ LiteralAtI(road, st, prepositions[k])
                        /\ IsSpace(road[st - 1])}
    IN  IF hits = {} THEN road
        ELSE LET st == Len(road) - Len(prepositions[CHOOSE k \in hits : TRUE]) + 1
                 starts == {b \in 1..(st - 1) : \A j \in b..(st - 1) : IsSpace(road[j])}
             IN  SubSeq(road, 1, Min(starts) - 1)

\* re.search: group(1) of the leftmost match, or None.  groups[i] is <<first,
\* last>> position of group(1) of the match that starts at position i, and
\* last is 0 when none starts there
Leftmost(s, groups) ==
    LET hits == {i \in 1..Len(groups) : groups[i][2] # 0}
    IN  IF hits = {} THEN None
        ELSE SubSeq(s, groups[Min(hits)][1], groups[Min(hits)][2])

\* <<first, last>> if the group that starts at first has an end, else what
\* backtracking finds next
PairOrElse(first, last, next) == IF last # 0 THEN <<first, last>> ELSE next

----------------------------------------------------------------------------
(* Pattern 1: \b(PREFIX[^,]+),\s*TOWN\b *)

\* the last position of group(1) of a match that starts at position i, or 0
Pattern1At(s, i, prefix, town_var) ==
    IF ~(LiteralAt(s, i, prefix) /\ WordBoundary(s, i)) THEN 0
    ELSE LET j == i + Len(prefix)
             commas == {c \in j..Len(s) : s[c] = ","}
         IN  IF commas = {} THEN 0
             ELSE IF Min(commas) > j /\ TownTail(s, Min(commas), town_var, FALSE)
                  THEN Min(commas) - 1
                  ELSE 0

\* re.search of pattern 1: group(1) of the leftmost match, or None
Pattern1(s, prefix, town_var) ==
    Leftmost(s, [i \in 1..Len(s) |-> <<i, Pattern1At(s, i, prefix, town_var)>>])

----------------------------------------------------------------------------
(* Pattern 2:                                                              *)
(* (?:^|in\s+|at\s+|along\s+(?:the\s+)?)((?:[\w']+\s+){0,4}SUFFIX),\s*TOWN\b *)
(* under re.IGNORECASE                                                     *)

\* the positions at which group(1) may start for a match that starts at
\* position i, in the order the alternatives are tried
Lead2(s, i) ==
    LET After(word) ==
            IF LiteralAtI(s, i, word) /\ SpaceRun(s, i + Len(word)) > 0
            THEN i + Len(word) + SpaceRun(s, i + Len(word))
            ELSE 0
        q == After(<<"a","l","o","n","g">>)
    IN  (IF i = 1 THEN <<1>> ELSE <<>>)
        \o (IF After(<<"i","n">>) # 0 THEN <<After(<<"i","n">>)>> ELSE <<>>)
        \o (IF After(<<"a","t">>) # 0 THEN <<After(<<"a","t">>)>> ELSE <<>>)
        \o (IF q = 0 THEN <<>>
            ELSE (IF LiteralAtI(s, q, <<"t","h","e">>) /\ SpaceRun(s, q + 3) > 0
                  THEN <<q + 3 + SpaceRun(s, q + 3)>>
                  ELSE <<>>) \o <<q>>)

\* SUFFIX),\s*TOWN\b behind n - 1 groups [\w']+\s+, whose ends are t, else
\* behind fewer: the last position of group(1), or 0
RECURSIVE Suffix2(_, _, _, _, _)
Suffix2(s, t, n, suffix, town_var) ==
    IF n = 0 THEN 0
    ELSE IF /\ LiteralAtI(s, t[n], suffix)
            /\ TownTail(s, t[n] + Len(suffix), town_var, TRUE)
         THEN t[n] + Len(suffix) - 1
         ELSE Suffix2(s, t, n - 1, suffix, town_var)

\* the most groups first
MostTokens2(s, t, suffix, town_var) == Suffix2(s, t, Len(t), suffix, town_var)

\* the last position of group(1) when it starts at position p, or 0
Pattern2From(s, p, suffix, town_var) ==
    MostTokens2(s, TokenEnds(s, p, MaxTokens), suffix, town_var)

\* the alternatives lead[n], lead[n + 1], .. in turn
RECURSIVE Alternatives2(_, _, _, _, _)
Alternatives2(s, lead, n, suffix, town_var) ==
    IF n > Len(lead) THEN <<0, 0>>
    ELSE PairOrElse(lead[n], Pattern2From(s, lead[n], suffix, town_var),
                    Alternatives2(s, lead, n + 1, suffix, town_var))

\* <<first, last>> position of group(1) of a match that starts at i, or <<0, 0>>
Pattern2At(s, i, suffix, town_var) ==
    Alternatives2(s, Lead2(s, i), 1, suffix, town_var)

\* re.search of pattern 2: group(1) of the leftmost match, or None
Pattern2(s, suffix, town_var) ==
    Leftmost(s, [i \in 1..Len(s) |-> Pattern2At(s, i, suffix, town_var)])

----------------------------------------------------------------------------
(* Pattern 3: along\s+(?:the\s+)?(.+?),?\s+in\s+TOWN\b under re.IGNORECASE *)

\* \s+in\s+TOWN\b at position q
InTown(s, q, town_var) ==
    \E k \in 1..SpaceRun(s, q) :
        /\ LiteralAtI(s, q + k, <<"i","n">>)
        /\ \E m \in 1..SpaceRun(s, q + k + 2) :
              /\ LiteralAtI(s, q + k + 2 + m, town_var)
              /\ WordBoundary(s, q + k + 2 + m + Len(town_var))

\* ,?\s+in\s+TOWN\b at position q
Rest3(s, q, town_var) ==
    \/ q \in 1..Len(s) /\ s[q] = "," /\ InTown(s, q + 1, town_var)
    \/ InTown(s, q, town_var)

\* the starts of group(1) behind an optional "the" read at position q, the
\* longest \s+ first
TheStarts(s, q) ==
    IF LiteralAtI(s, q, <<"t","h","e">>)
    THEN [n \in 1..SpaceRun(s, q + 3) |-> q + 3 + (SpaceRun(s, q + 3) - n + 1)]
    ELSE <<>>

\* the starts of group(1) in the order backtracking tries them: the \s+ behind
\* "along" (which ends before position a) from k1 characters down to one, each
\* with "the" first and without it next
RECURSIVE Starts3(_, _, _)
Starts3(s, a, k1) ==
    IF k1 = 0 THEN <<>>
    ELSE TheStarts(s, a + k1) \o <<a + k1>> \o Starts3(s, a, k1 - 1)

\* the last position of the shortest group(1) that starts at g, or 0
Group3End(s, g, town_var) ==
    LET breaks == {j \in g..Len(s) : s[j] = "nl"}
        last == IF breaks = {} THEN Len(s) ELSE Min(breaks) - 1
        ok == {e \in g..last : Rest3(s, e + 1, town_var)}
    IN  IF ok = {} THEN 0 ELSE Min(ok)

\* the starts starts[n], starts[n + 1], .. in turn
RECURSIVE Alternatives3(_, _, _, _)
Alternatives3(s, starts, n, town_var) ==
    IF n > Len(starts) THEN <<0, 0>>
    ELSE PairOrElse(starts[n], Group3End(s, starts[n], town_var),
                    Alternatives3(s, starts, n + 1, town_var))

\* <<first, last>> position of group(1) of a match that starts at i, or <<0, 0>>
Pattern3At(s, i, town_var) ==
    IF ~LiteralAtI(s, i, <<"a","l","o","n","g">>) THEN <<0, 0>>
    ELSE Alternatives3(s, Starts3(s, i + 5, SpaceRun(s, i + 5)), 1, town_var)

\* re.search of pattern 3: group(1) of the leftmost match, or None
Pattern3(s, town_var) ==
    Leftmost(s, [i \in 1..Len(s) |-> Pattern3At(s, i, town_var)])

----------------------------------------------------------------------------
(* The road patterns of the fallback *)

\* [\w\s'\\-]
IsRoadChar(c) == IsWord(c) \/ IsSpace(c) \/ c \in {"'", "bslash", "-"}

RECURSIVE RoadCharRun(_, _)
RoadCharRun(s, i) ==
    IF i < 1 \/ i > Len(s) THEN 0
    ELSE IF IsRoadChar(s[i]) THEN 1 + RoadCharRun(s, i + 1) ELSE 0

\* (?:,|\.|\s+corner) at position q
RoadEnd(s, q) ==
    \/ q \in 1..Len(s) /\ s[q] \in {",", "."}
    \/ SpaceRun(s, q) > 0 /\ LiteralAt(s, q + SpaceRun(s, q), <<"c","o","r","n","e","r">>)

\* \b(PREFIX\s+[\w\s'\\-]+?)(?:,|\.|\s+corner): the last position of group(1)
\* of a match that starts at i, or 0.  The \s+ takes all m white-space
\* characters first and the lazy class the fewest it can; then the \s+ gives
\* characters back one by one
FallbackMalteseAt(s, i, prefix) ==
    IF ~(LiteralAt(s, i, prefix) /\ WordBoundary(s, i)) THEN 0
    ELSE LET j == i + Len(prefix)
             m == SpaceRun(s, j)
             far == {e \in (j + m)..(j + RoadCharRun(s, j) - 1) : RoadEnd(s, e + 1)}
             near == {e \in (j + 1)..(j + m - 1) : RoadEnd(s, e + 1)}
         IN  IF m = 0 THEN 0
             ELSE IF far # {} THEN Min(far)
             ELSE IF near # {} THEN Max(near)
             ELSE 0

FallbackMaltese(s, prefix) ==
    Leftmost(s, [i \in 1..Len(s) |-> <<i, FallbackMalteseAt(s, i, prefix)>>])

\* SUFFIX)\b behind n - 1 groups [\w']+\s+, whose ends are t, else behind
\* fewer, and one at least: the last position of group(1), or 0
RECURSIVE SuffixEnglish(_, _, _, _)
SuffixEnglish(s, t, n, suffix) ==
    IF n < 2 THEN 0
    ELSE IF /\ LiteralAt(s, t[n], suffix)
            /\ WordBoundary(s, t[n] + Len(suffix))
         THEN t[n] + Len(suffix) - 1
         ELSE SuffixEnglish(s, t, n - 1, suffix)

\* the most groups first
MostTokensEnglish(s, t, suffix) == SuffixEnglish(s, t, Len(t), suffix)

\* \b((?:[\w']+\s+){1,4}SUFFIX)\b: the last position of group(1) of a match
\* that starts at i, or 0
FallbackEnglishAt(s, i, suffix) ==
    IF ~WordBoundary(s, i) THEN 0
    ELSE MostTokensEnglish(s, TokenEnds(s, i, MaxTokens), suffix)

FallbackEnglish(s, suffix) ==
    Leftmost(s, [i \in 1..Len(s) |-> <<i, FallbackEnglishAt(s, i, suffix)>>])

----------------------------------------------------------------------------
(* Road-Town Joint Extractor *)

\* the (normalized variation, official name) pairs of one lookup row
VariationPairs(row) ==
    [k \in 1..Len(row[2]) |-> <<normalize_apostrophes(row[2][k]), row[1]>>]

RECURSIVE AllPairs(_, _)
AllPairs(lookup, r) ==
    IF r > Len(lookup) THEN <<>>
    ELSE VariationPairs(lookup[r]) \o AllPairs(lookup, r + 1)

\* a slip: the sort left out
all_town_variations_unsorted(lookup) == AllPairs(lookup, 1)

\* all_town_variations, sorted by the length of the variation, longest first
all_town_variations(lookup) ==
    LET pairs == AllPairs(lookup, 1)
        keyed == [k \in 1..Len(pairs) |-> <<Len(pairs[k][1]), pairs[k]>>]
    IN  Items(SortDesc(keyed, Len(keyed)))

\* the re.search calls of one round of the cascade's loop
PatternsPerCandidate == Len(maltese_prefixes) + Len(english_suffixes) + 1

\* what the n-th re.search of a round finds: the prefixes with Pattern 1, the
\* suffixes with Pattern 2, then Pattern 3
PatternRoad(s, town_var, n) ==
    IF n <= Len(maltese_prefixes)
    THEN Pattern1(s, maltese_prefixes[n], town_var)
    ELSE IF n <= Len(maltese_prefixes) + Len(english_suffixes)
    THEN Pattern2(s, english_suffixes[n - Len(maltese_prefixes)], town_var)
    ELSE Pattern3(s, town_var)

\* road = match.group(1).strip(), less a trailing preposition after Pattern 1
Road(n, group) ==
    IF n <= Len(maltese_prefixes) THEN StripPreposition(strip(group)) ELSE strip(group)

\* the first of the searches of a round that matches, and its road
FirstFound(groups) ==
    LET hits == {n \in 1..Len(groups) : groups[n] # None}
    IN  IF hits = {} THEN [found |-> 0, road |-> None]
        ELSE [found |-> Min(hits), road |-> Road(Min(hits), groups[Min(hits)])]

\* one round of the loop over all_town_variations: the patterns in the order
\* they are tried; found is 0 when none matches, else the number of the
\* re.search call that matched
TryCandidate(s, town_var) ==
    FirstFound([n \in 1..PatternsPerCandidate |-> PatternRoad(s, town_var, n)])

\* return (road, town) if the round matched, else the rounds that follow
Return(k, official_town, try, next) ==
    IF try.found # 0
    THEN [matched |-> TRUE, road |-> try.road, town |-> official_town,
          searches |-> (k - 1) * PatternsPerCandidate + try.found]
    ELSE next

\* the loop over all_town_variations, from candidate k on: it returns at the
\* first pattern that matches
RECURSIVE Cascade(_, _, _)
Cascade(s, candidates, k) ==
    IF k > Len(candidates)
    THEN [matched |-> FALSE, road |-> None, town |-> None,
          searches |-> Len(candidates) * PatternsPerCandidate]
    ELSE Return(k, candidates[k][2], TryCandidate(s, candidates[k][1]),
                Cascade(s, candidates, k + 1))

\* what the n-th re.search of the fallback finds: the prefixes, then the suffixes
FallbackPattern(s, n) ==
    IF n <= Len(maltese_prefixes)
    THEN FallbackMaltese(s, maltese_prefixes[n])
    ELSE FallbackEnglish(s, english_suffixes[n - Len(maltese_prefixes)])

\* the first of the fallback's searches that matches: its road, and the
\* re.search calls made
FirstRoad(groups) ==
    LET hits == {n \in 1..Len(groups) : groups[n] # None}
    IN  IF hits = {} THEN [road |-> None, searches |-> Len(groups)]
        ELSE [road |-> Road(Min(hits), groups[Min(hits)]), searches |-> Min(hits)]

\* the road search of the fallback, with no town to anchor it
FallbackRoad(s) ==
    FirstRoad([n \in 1..(Len(maltese_prefixes) + Len(english_suffixes)) |->
                  FallbackPattern(s, n)])

\* a slip: the fallback returns the road it found without the town
OutcomeRoadOnly(joint, town, fallback) ==
    IF joint.matched THEN joint
    ELSE [road |-> fallback.road,
          town |-> IF fallback.road = None THEN town ELSE None,
          matched |-> FALSE,
          searches |-> joint.searches + fallback.searches]

\* what the cascade returned, else the town found on its own with the road of
\* the fallback
Outcome(joint, town, fallback) ==
    IF joint.matched THEN joint
    ELSE [road |-> fallback.road,
          town |-> town,
          matched |-> FALSE,
          searches |-> joint.searches + fallback.searches]

\* extract_road_and_town behind its guard
Extract(normalized_content, c, locations_df) ==
    Outcome(Cascade(normalized_content,
                    all_town_variations(build_town_lookup(locations_df)), 1),
            extract_town(c, locations_df),
            FallbackRoad(normalized_content))

\* the body of extract_road_and_town: what it returns, whether the cascade
\* matched, and how many road patterns it ran
RoadAndTown(c, locations_df) ==
    IF NoContent(c)
    THEN [road |-> None, town |-> None, matched |-> FALSE, searches |-> 0]
    ELSE Extract(normalize_apostrophes(c), c, locations_df)

\* the (road, town) tuple of a run
Returned(run) == <<run.road, run.town>>

\* the re.search calls of a run
Searches(run) == run.searches

extract_road_and_town(c, locations_df) == Returned(RoadAndTown(c, locations_df))

extract_location(c, locations_df) == extract_road_and_town(c, locations_df)
----------------------------------------------------------------------------
(* The inputs the calls are checked on *)

\* every gazetteer of at most n rows over towns; a town may be on two rows
Gazetteers(towns, n) == UNION {[1..k -> towns] : k \in 0..n}

\* every gazetteer of at most n rows, all different
DistinctGazetteers(towns, n) ==
    {g \in Gazetteers(towns, n) : \A i, j \in 1..Len(g) : g[i] = g[j] => i = j}

RECURSIVE Concat(_)
Concat(fs) == IF fs = <<>> THEN <<>> ELSE Head(fs) \o Concat(Tail(fs))

\* towns of the town matcher's gazetteers: Il-Birgu, Bormla, H'Attard (H with stroke)
TownUniverse == { <<"I","l","-","B","i","r","g","u">>, <<"B","o","r","m","l","a">>, <<"Hbar","'","A","t","t","a","r","d">> }

\* what the town matcher's contents are put together from; U+2019 in the last
TownFragments ==
    { <<"V","i","t","t","o","r","i","o","s","a"," ">>, <<"B","o","r","m","l","a"," ">>, <<"B","i","r","g","u">>, <<"I","l","-">>, <<"Hbar","rsquo","A","t","t","a","r","d">> }

TownContents ==
    {Concat(fs) : fs \in UNION {[1..k -> TownFragments] : k \in 0..MaxFrags}}

\* towns of the road extractor's gazetteers
RoadTowns == { <<"I","l","-","B","i","r","g","u">>, <<"B","o","r","m","l","a">> }

\* what the road extractor's contents are put together from
RoadFragments ==
    { <<>>,
      <<"T","r","i","q"," ","X",","," ","B","o","r","m","l","a","."," ">>,
      <<"a","t"," ","Y"," ","R","o","a","d",","," ","V","i","t","t","o","r","i","o","s","a"," ">>,
      <<"a","l","o","n","g"," ","t","h","e"," ","Z"," ","i","n"," ","B","i","r","g","u"," ">>,
      <<"T","r","i","q"," ","W"," ","n","e","a","r",","," ","B","i","r","g","u"," ">>,
      <<"S","q","a","q"," ","V"," ","c","o","r","n","e","r"," ">>,
      <<"o","n"," ","U"," ","L","a","n","e"," ">>,
      <<"C","o","s","p","i","c","u","a"," ">> }

RoadContents == {a \o b : a \in RoadFragments, b \in RoadFragments}

\* the scenario of the English-suffix road in front of a town
ScenarioContent == <<"P","o","l","i","c","e"," ","a","r","e"," ","i","n","v","e","s","t","i","g","a","t","i","n","g"," ","a","n"," ","i","n","c","i","d","e","n","t"," ","o","n"," ","M","s","i","d","a"," ","R","o","a","d",","," ","M","s","i","d","a",".">>

ScenarioGazetteers ==
    { << <<"L","-","I","m","s","i","d","a">> >> }
        \cup { << <<"L","-","I","m","s","i","d","a">>, t >> : t \in RoadTowns }
        \cup { << t, <<"L","-","I","m","s","i","d","a">> >> : t \in RoadTowns }

\* towns of the lookup index's gazetteers: the official names of the alias
\* catalog, and four names it does not hold: Rabat, Sliema, Pieta (a grave), Attard
CatalogTowns == {get_english_aliases[k][1] : k \in 1..Len(get_english_aliases)}

LookupTowns == CatalogTowns \cup { <<"R","a","b","a","t">>, <<"S","l","i","e","m","a">>, <<"P","i","e","t","agrave">>, <<"A","t","t","a","r","d">> }

\* the characters of the normalizers' texts: every key of the two tables, and
\* some characters they leave alone
NormAlphabet ==
    {create_ascii_mapping[k][1] : k \in 1..Len(create_ascii_mapping)}
        \cup {apostrophes[k] : k \in 1..Len(apostrophes)}
        \cup {"'", "H", "a", " "}

NormTexts == UNION {[1..k -> NormAlphabet] : k \in 0..MaxTextLen}

----------------------------------------------------------------------------
(* The calls *)

Idle ==
    /\ call = "none"
    /\ ret = <<>>
    /\ searches = 0

\* the town matcher on a gazetteer and a content
Init ==
    /\ locations \in Gazetteers(TownUniverse, MaxTowns)
    /\ content \in TownContents \cup {None, NaN}
    /\ text = <<>>
    /\ Idle

\* the road extractor on a gazetteer and a content
InitRoad ==
    /\ \/ /\ locations \in Gazetteers(RoadTowns, MaxTowns)
          /\ content \in RoadContents \cup {None, NaN}
       \/ /\ locations \in ScenarioGazetteers
          /\ content = ScenarioContent
    /\ text = <<>>
    /\ Idle

\* the lookup index on a gazetteer of distinct names
InitLookup ==
    /\ locations \in DistinctGazetteers(LookupTowns, MaxTowns)
    /\ content = <<>>
    /\ text = <<>>
    /\ Idle

\* the normalizers on a text
InitNorm ==
    /\ locations = <<>>
    /\ content = <<>>
    /\ text \in NormTexts
    /\ Idle

ToAscii ==
    /\ call = "none"
    /\ call' = "to_ascii"
    /\ ret' = to_ascii(text)
    /\ UNCHANGED <<locations, content, text, searches>>

NormalizeApostrophes ==
    /\ call = "none"
    /\ call' = "normalize_apostrophes"
    /\ ret' = normalize_apostrophes(text)
    /\ UNCHANGED <<locations, content, text, searches>>

BuildTownLookup ==
    /\ call = "none"
    /\ call' = "build_town_lookup"
    /\ ret' = build_town_lookup(locations)
    /\ UNCHANGED <<locations, content, text, searches>>

ExtractTown ==
    /\ call = "none"
    /\ call' = "extract_town"
    /\ ret' = extract_town(content, locations)
    /\ UNCHANGED <<locations, content, text, searches>>

ExtractAllTowns ==
    /\ call = "none"
    /\ call' = "extract_all_towns"
    /\ ret' = extract_all_towns(content, locations)
    /\ UNCHANGED <<locations, content, text, searches>>

ExtractRoadAndTown ==
    /\ call = "none"
    /\ call' = "extract_road_and_town"
    /\ ret' = extract_road_and_town(content, locations)
    /\ searches' = Searches(RoadAndTown(content, locations))
    /\ UNCHANGED <<locations, content, text>>

ExtractLocation ==
    /\ call = "none"
    /\ call' = "extract_location"
    /\ ret' = extract_location(content, locations)
    /\ searches' = Searches(RoadAndTown(content, locations))
    /\ UNCHANGED <<locations, content, text>>

Next == ExtractTown \/ ExtractAllTowns

NextRoad == ExtractRoadAndTown \/ ExtractLocation \/ ExtractTown \/ ExtractAllTowns

NextLookup == BuildTownLookup

NextNorm == ToAscii \/ NormalizeApostrophes

Spec == Init /\ [][Next]_vars

SpecRoad == InitRoad /\ [][NextRoad]_vars

SpecLookup == InitLookup /\ [][NextLookup]_vars

SpecNorm == InitNorm /\ [][NextNorm]_vars

----------------------------------------------------------------------------
(* What the properties below speak of *)

\* the content is a string with at least one character
HasContent == content \notin {None, NaN, <<>>}

\* the content as the matchers read it
NormalizedContent == normalize_apostrophes(content)

\* lit stands in s at position i with no word character on either side of it
WholeWordAt(s, i, lit) ==
    /\ i >= 1
    /\ i + Len(lit) - 1 <= Len(s)
    /\ s[i] = lit[1]
    /\ SubSeq(s, i, i + Len(lit) - 1) = lit
    /\ i = 1 \/ s[i - 1] \notin WordChars
    /\ i + Len(lit) - 1 = Len(s) \/ s[i + Len(lit)] \notin WordChars

\* lit is a whole word of s
IsWholeWordOf(s, lit) == \E i \in 1..Len(s) : WholeWordAt(s, i, lit)

\* the rows of a gazetteer, as a set
Towns(g) == {g[r] : r \in 1..Len(g)}

\* the variants of a town, apostrophes normalized, as a set
NormVariants(town) ==
    LET variations == all_variations(town)
    IN  {normalize_apostrophes(variations[k]) : k \in 1..Len(variations)}

\* the positions at which a variant of the town is a whole word of the content
OccurrencesOf(town) ==
    LET s == NormalizedContent
        variants == NormVariants(town)
    IN  {i \in 1..Len(s) : \E v \in variants : WholeWordAt(s, i, v)}

\* the towns of the gazetteer with a variant that is a whole word of the content
MatchedTowns == {t \in Towns(locations) : OccurrencesOf(t) # {}}

\* the towns that own the variant occurrence with the smallest start offset
EarliestOwners ==
    LET first == [t \in MatchedTowns |-> Min(OccurrencesOf(t))]
    IN  {t \in DOMAIN first : \A u \in DOMAIN first : first[t] <= first[u]}

\* the candidates of the cascade, in the order it tries them
Candidates == all_town_variations(build_town_lookup(locations))

\* the number of the pattern that matches first for each candidate, 0 for none
JointFound ==
    LET s == NormalizedContent
        candidates == Candidates
    IN  [k \in 1..Len(candidates) |-> TryCandidate(s, candidates[k][1]).found]

\* the candidates among those with a joint pattern that matches
Matching(found) == {k \in DOMAIN found : found[k] # 0}

----------------------------------------------------------------------------
(* Town Matcher *)

\* C1: when variants of two or more towns are whole words of a content, and one
\* town owns the occurrence with the smallest offset, extract_town returns that
\* town, whatever the variant's length or place in its town's variant list.
C1_OffsetMinimal ==
    (call = "extract_town" /\ HasContent)
        => LET matched == MatchedTowns
               owners == EarliestOwners
           IN  (Cardinality(matched) >= 2 /\ Cardinality(owners) = 1)
                  => ret \in owners

\* C2, as claimed: for every variant V that is a whole word of the content,
\* extract_town returns a town whose variant set holds V.
C2_ReturnsOwnerOfEveryVariant ==
    (call = "extract_town" /\ HasContent)
        => LET s == NormalizedContent
           IN  \A t \in Towns(locations) : \A v \in NormVariants(t) :
                  IsWholeWordOf(s, v) => ret # None /\ v \in NormVariants(ret)

\* C2, amended: when a variant V is a whole word of the content, extract_town
\* returns a town of the gazetteer one of whose variants is a whole word of the
\* content; its variant set holds V itself when every town with such a variant
\* holds V.
C2_ReturnsAMatchedTown ==
    (call = "extract_town" /\ HasContent)
        => LET s == NormalizedContent
               matched == MatchedTowns
           IN  \A t \in Towns(locations) : \A v \in NormVariants(t) :
                  IsWholeWordOf(s, v)
                      => /\ ret # None
                         /\ ret \in matched
                         /\ (\A u \in matched : v \in NormVariants(u))
                                => v \in NormVariants(ret)

\* C2's case: two towns have a variant in the content, and a town is returned
C2_Witness ==
    /\ call = "extract_town"
    /\ HasContent
    /\ LET matched == MatchedTowns
       IN  Cardinality(matched) = 2 /\ ret \in matched

\* C4: the list extract_all_towns returns holds no town twice.
C4_NoDuplicates ==
    call = "extract_all_towns"
        => \A i, j \in 1..Len(ret) : ret[i] = ret[j] => i = j

\* C4's case: two different variants of a returned town are whole words of
\* the content, and the town is on two rows of the gazetteer
C4_Witness ==
    /\ call = "extract_all_towns"
    /\ HasContent
    /\ Len(locations) = 2
    /\ locations[1] = locations[2]
    /\ LET s == NormalizedContent
       IN  \E k \in 1..Len(ret) :
              \E v, w \in NormVariants(ret[k]) :
                  v # w /\ IsWholeWordOf(s, v) /\ IsWholeWordOf(s, w)

\* C10: extract_all_towns returns the towns in index order: the longest variant
\* of a town is never shorter than that of the town behind it, a town stands
\* before another as in the index, and the list holds exactly the gazetteer's
\* towns with a variant that is a whole word of the content.
C10_IndexOrder ==
    (call = "extract_all_towns" /\ HasContent)
        => LET lookup == build_town_lookup(locations)
           IN  /\ \A k \in 1..(Len(ret) - 1) :
                     MaxLen(all_variations(ret[k])) >= MaxLen(all_variations(ret[k + 1]))
               /\ \A k, l \in 1..Len(ret) :
                     k < l => \E r \in 1..Len(lookup) :
                                 /\ lookup[r][1] = ret[k]
                                 /\ \A q \in 1..r : lookup[q][1] # ret[l]
               /\ Towns(ret) = MatchedTowns

\* C10's case: the town returned first stands behind the second in the content
C10_Witness ==
    /\ call = "extract_all_towns"
    /\ HasContent
    /\ Len(ret) >= 2
    /\ Min(OccurrencesOf(ret[1])) > Max(OccurrencesOf(ret[2]))

----------------------------------------------------------------------------
(* Absent content *)

\* C5: on a content that is None, missing or empty, extract_road_and_town
\* returns (None, None) and runs no pattern, extract_town returns None and
\* extract_all_towns returns the empty list.
C5_AbsencePropagation ==
    content \in {None, NaN, <<>>}
        => /\ call \in {"extract_road_and_town", "extract_location"}
                 => ret = <<None, None>> /\ searches = 0
           /\ call = "extract_town" => ret = None
           /\ call = "extract_all_towns" => ret = <<>>

\* C5's case: a missing content, given to extract_road_and_town with a gazetteer
C5_Witness ==
    /\ content = NaN
    /\ locations # <<>>
    /\ call = "extract_road_and_town"

----------------------------------------------------------------------------
(* Text Normalizer *)

\* C6: to_ascii and normalize_apostrophes are idempotent, and no character
\* either of them puts in is a character it replaces.
C6_Idempotent ==
    /\ call = "to_ascii" => to_ascii(ret) = ret
    /\ call = "normalize_apostrophes" => normalize_apostrophes(ret) = ret
    /\ \A j, k \in 1..Len(create_ascii_mapping) :
          create_ascii_mapping[j][2] # create_ascii_mapping[k][1]
    /\ \A k \in 1..Len(apostrophes) : apostrophes[k] # "'"

\* C6's case: to_ascii replaced every character of a text of the full length
C6_Witness ==
    /\ call = "to_ascii"
    /\ Len(text) = MaxTextLen
    /\ \A i \in 1..Len(text) : ret[i] # text[i]

----------------------------------------------------------------------------
(* Town Lookup Index *)

\* no variant, as listed or with its apostrophes normalized, belongs to the
\* rows of two different towns of the index
Unambiguous(lookup) ==
    \A r1, r2 \in 1..Len(lookup) :
        lookup[r1][1] # lookup[r2][1]
            => \A k1 \in 1..Len(lookup[r1][2]) : \A k2 \in 1..Len(lookup[r2][2]) :
                  /\ lookup[r1][2][k1] # lookup[r2][2][k2]
                  /\ normalize_apostrophes(lookup[r1][2][k1])
                        # normalize_apostrophes(lookup[r2][2][k2])

\* C7, as claimed: in the index of a gazetteer of distinct names no variant
\* belongs to two different towns.
C7_VariantUnambiguity ==
    call = "build_town_lookup" => Unambiguous(ret)

\* C7, amended: in the index of a gazetteer of distinct official names of the
\* alias catalog no variant belongs to two different towns.
C7_CatalogUnambiguity ==
    (call = "build_town_lookup" /\ Towns(locations) \subseteq CatalogTowns)
        => Unambiguous(ret)

\* C7's case: the index of two catalog towns, each with a stripped name or an
\* alias and an ASCII fold
C7_Witness ==
    /\ call = "build_town_lookup"
    /\ Towns(locations) \subseteq CatalogTowns
    /\ Len(ret) = 2
    /\ \A r \in 1..2 :
          /\ Len(ret[r][2]) >= 3
          /\ \E k \in 1..Len(ret[r][2]) : to_ascii(ret[r][2][k]) # ret[r][2][k]

----------------------------------------------------------------------------
(* Road-Town Joint Extractor *)

\* C3: on the scenario's content, with L-Imsida in the gazetteer,
\* extract_road_and_town returns the road "Msida Road" and the town L-Imsida.
C3_MsidaRoadScenario ==
    (/\ call = "extract_road_and_town"
     /\ content = ScenarioContent
     /\ <<"L","-","I","m","s","i","d","a">> \in Towns(locations))
        => ret = << <<"M","s","i","d","a"," ","R","o","a","d">>, <<"L","-","I","m","s","i","d","a">> >>

\* the first pattern that matches for a candidate, by the order of the cascade:
\* a prefix pattern, else a suffix pattern, else "along .. in"
FirstPattern(s, town_var) ==
    LET p1 == {a \in 1..Len(maltese_prefixes) :
                  Pattern1(s, maltese_prefixes[a], town_var) # None}
        p2 == {a \in 1..Len(english_suffixes) :
                  Pattern2(s, english_suffixes[a], town_var) # None}
    IN  IF p1 # {} THEN Min(p1)
        ELSE IF p2 # {} THEN Len(maltese_prefixes) + Min(p2)
        ELSE IF Pattern3(s, town_var) # None THEN PatternsPerCandidate
        ELSE 0

\* C8: the cascade tries the candidates by non-increasing variant length and,
\* per candidate, the prefix patterns, the suffix patterns, then "along .. in";
\* it returns the road and town of the first pattern that matches and runs
\* no pattern after it, so no candidate with a match is longer than the
\* winner.
C8_CascadePriority ==
    (call = "extract_road_and_town" /\ HasContent)
        => LET s == NormalizedContent
               candidates == Candidates
               found == JointFound
           IN  /\ \A j \in 1..(Len(candidates) - 1) :
                     Len(candidates[j][1]) >= Len(candidates[j + 1][1])
               /\ \A k \in Matching(found) :
                     (\A j \in Matching(found) : k <= j)
                         => /\ \A try \in {TryCandidate(s, candidates[k][1])} :
                                  ret = <<try.road, candidates[k][2]>>
                            /\ found[k] = FirstPattern(s, candidates[k][1])
                            /\ searches = (k - 1) * PatternsPerCandidate + found[k]
                            /\ \A j \in Matching(found) :
                                  Len(candidates[j][1]) <= Len(candidates[k][1])

\* C8's case: a shorter candidate of another town matches a pattern of higher
\* priority than the one the winner matches
C8_Witness ==
    /\ call = "extract_road_and_town"
    /\ HasContent
    /\ LET candidates == Candidates
           found == JointFound
       IN  /\ Len(candidates) > 0
           /\ \E k, j \in Matching(found) :
                 /\ \A i \in Matching(found) : k <= i
                 /\ candidates[k][2] = ret[2]
                 /\ candidates[j][2] # ret[2]
                 /\ Len(candidates[j][1]) < Len(candidates[k][1])
                 /\ found[j] < found[k]

\* C9: when no candidate matches a joint pattern, the town that
\* extract_road_and_town returns is extract_town's, whether or not the road
\* search finds a road.
C9_FallbackTown ==
    (call = "extract_road_and_town" /\ HasContent)
        => (Matching(JointFound) = {} => ret[2] = extract_town(content, locations))

\* C9's case: the fallback finds a road and a town
C9_Witness ==
    /\ call = "extract_road_and_town"
    /\ HasContent
    /\ ret[1] # None
    /\ ret[2] # None
    /\ Matching(JointFound) = {}

====
